---- MODULE Spec2Model ----
(***************************************************************************)
(* Model of the concept-craft-cms front end.                               *)
(*                                                                         *)
(*   Spec        the session state machine (contexts/AuthContext.tsx with  *)
(*               authService's localStorage helpers)                       *)
(*   SpecCache   the query cache and the mutations of the problem views    *)
(*   SpecRead    the reads of the problem list under filters and navigation*)
(*   SpecForm    the problem form's client-side validation                 *)
(*   SpecUpload  the CSV bulk upload component                             *)
(*   SpecUploadFair  the same, with intervals that keep firing             *)
(*   SpecMenu    the write controls pressed again while a write is pending *)
(*   SpecFail    the problem views when every write is rejected            *)
(*   SpecRoute   the session machine together with the router of App       *)
(*                                                                         *)
(* JavaScript runs every handler and every continuation after an await to  *)
(* completion, so each is one action.  Inside an action the statements are *)
(* applied in program order to a "world" record whose field effects keeps  *)
(* a snapshot after each statement.                                        *)
(***************************************************************************)
EXTENDS Integers, Sequences, FiniteSets, TLC

VARIABLES
    state,          \* AuthProvider: the useReducer state (AuthState)
    localStorage,   \* window.localStorage: key -> string, or null
    initPc,         \* position of the mount effect initAuth
    initToken,      \* initAuth's local const token
    pending,        \* login()/register() calls suspended at their await
    thrown,         \* calls whose promise rejected (error re-thrown), by kind
    effects,        \* snapshots after each statement of the last handler run
    lastOp,         \* the handler (or continuation) that ran last
    server,         \* the REST API's data: a write counter and p1's status
    queries,        \* QueryClient: the query cache, by query key
    obs,            \* the useQuery observers of the mounted components
    mutations,      \* write requests in flight
    completed,      \* newest write whose onSuccess has run (server version)
    mounted,        \* ProblemManagement is on screen
    viewMode,       \* ProblemManagement: viewMode
    editingProblem, \* ProblemManagement: editingProblem
    filters,        \* ProblemList: filters
    uploadOpen,     \* BulkUpload is on screen
    selectedFile,   \* BulkUpload: selectedFile, NoFile for null
    uploadProgress, \* BulkUpload: uploadProgress
    uploadResult,   \* BulkUpload: uploadResult, NoResult for null
    isDragging,     \* BulkUpload: isDragging
    isProcessing,   \* BulkUpload: isProcessing
    timers,         \* intervals started by onMutate and not yet cleared, counted
    form,           \* ProblemForm: the field values (react-hook-form)
    errors,         \* ProblemForm: formState.errors, the fields that failed validation
    location        \* BrowserRouter: the path of the current location

authVars == <<state, localStorage, initPc, initToken, pending, thrown>>

pageVars == <<server, queries, obs, mutations, completed, mounted, viewMode,
              editingProblem, filters>>

uploadVars == <<uploadOpen, selectedFile, uploadProgress, uploadResult, isDragging,
                isProcessing, timers>>

formVars == <<form, errors>>

routeVars == <<location>>

vars == <<state, localStorage, initPc, initToken, pending, thrown, effects, lastOp,
          server, queries, obs, mutations, completed, mounted, viewMode,
          editingProblem, filters, uploadOpen, selectedFile, uploadProgress,
          uploadResult, isDragging, isProcessing, timers, form, errors, location>>

----------------------------------------------------------------------------
(* Values *)

null == "null"

Users == {"u1", "u2"}

Tokens == {"tok1", "tok2"}

\* error.response?.data?.message of a rejected auth request: absent (null) or a text
ServerMessages == {null, "Invalid credentials"}

\* more login()/register() calls than this are not started at the same time
MaxPending == 2

\* the counters of re-thrown failures stop at this value
MaxThrown == 2

----------------------------------------------------------------------------
(* authService: the persisted entries *)

\* JSON.stringify(user) / JSON.parse(userStr) on a User record
JSONstringify(u) == "{\"id\":\"" \o u \o "\"}"

JSONparse(s) == CHOOSE u \in Users : JSONstringify(u) = s

\* !!v of a string-or-null value
truthy(v) == v # null /\ v # ""

getStoredUser(ls) == IF truthy(ls["user"]) THEN JSONparse(ls["user"]) ELSE null

emptyStorage == [k \in {"user", "token"} |-> null]

snapshot(w, name) == [eff |-> name, state |-> w.state, localStorage |-> w.localStorage]

storeAuthData(w, u, t) ==
    LET ls1 == [w.localStorage EXCEPT !["user"] = JSONstringify(u)]
        ls2 == [ls1 EXCEPT !["token"] = t]
        w2  == [w EXCEPT !.localStorage = ls2]
    IN  [w2 EXCEPT !.effects = Append(@, snapshot(w2, "storeAuthData"))]

clearAuthDataTokenOnly(w) ==
    LET w2 == [w EXCEPT !.localStorage["token"] = null]
    IN  [w2 EXCEPT !.effects = Append(@, snapshot(w2, "clearAuthData"))]

clearAuthData(w) ==
    LET ls1 == [w.localStorage EXCEPT !["user"] = null]
        ls2 == [ls1 EXCEPT !["token"] = null]
        w2  == [w EXCEPT !.localStorage = ls2]
    IN  [w2 EXCEPT !.effects = Append(@, snapshot(w2, "clearAuthData"))]

----------------------------------------------------------------------------
(* AuthContext: reducer *)

initialState ==
    [user |-> null, token |-> null, isAuthenticated |-> FALSE,
     isLoading |-> TRUE, error |-> null]

AUTH_START == [type |-> "AUTH_START"]

AUTH_SUCCESS(u, t) == [type |-> "AUTH_SUCCESS", user |-> u, token |-> t]

AUTH_FAILURE(msg) == [type |-> "AUTH_FAILURE", payload |-> msg]

LOGOUT == [type |-> "LOGOUT"]

CLEAR_ERROR == [type |-> "CLEAR_ERROR"]

SET_LOADING(b) == [type |-> "SET_LOADING", loading |-> b]

authReducerKeepsFlag(s, action) ==
    CASE action.type = "AUTH_START" ->
            [s EXCEPT !.isLoading = TRUE, !.error = null]
      [] action.type = "AUTH_SUCCESS" ->
            [s EXCEPT !.user = action.user, !.token = action.token,
                      !.isAuthenticated = TRUE, !.isLoading = FALSE, !.error = null]
      [] action.type = "AUTH_FAILURE" ->
            [s EXCEPT !.user = null, !.token = null,
                      !.isLoading = FALSE, !.error = action.payload]
      [] action.type = "LOGOUT" ->
            [s EXCEPT !.user = null, !.token = null, !.isAuthenticated = FALSE,
                      !.isLoading = FALSE, !.error = null]
      [] action.type = "CLEAR_ERROR" ->
            [s EXCEPT !.error = null]
      [] action.type = "SET_LOADING" ->
            [s EXCEPT !.isLoading = action.loading]
      [] OTHER -> s

authReducerFailureKeepsLoading(s, action) ==
    IF action.type = "AUTH_FAILURE"
    THEN [s EXCEPT !.user = null, !.token = null, !.isAuthenticated = FALSE,
                   !.error = action.payload]
    ELSE authReducerKeepsFlag(s, action)

authReducerSuccessKeepsError(s, action) ==
    CASE action.type = "AUTH_SUCCESS" ->
            [s EXCEPT !.user = action.user, !.token = action.token,
                      !.isAuthenticated = TRUE, !.isLoading = FALSE]
      [] action.type = "AUTH_FAILURE" ->
            [s EXCEPT !.user = null, !.token = null, !.isAuthenticated = FALSE,
                      !.isLoading = FALSE, !.error = action.payload]
      [] OTHER -> authReducerKeepsFlag(s, action)

authReducer(s, action) ==
    CASE action.type = "AUTH_START" ->
            [s EXCEPT !.isLoading = TRUE, !.error = null]
      [] action.type = "AUTH_SUCCESS" ->
            [s EXCEPT !.user = action.user, !.token = action.token,
                      !.isAuthenticated = TRUE, !.isLoading = FALSE, !.error = null]
      [] action.type = "AUTH_FAILURE" ->
            [s EXCEPT !.user = null, !.token = null, !.isAuthenticated = FALSE,
                      !.isLoading = FALSE, !.error = action.payload]
      [] action.type = "LOGOUT" ->
            [s EXCEPT !.user = null, !.token = null, !.isAuthenticated = FALSE,
                      !.isLoading = FALSE, !.error = null]
      [] action.type = "CLEAR_ERROR" ->
            [s EXCEPT !.error = null]
      [] action.type = "SET_LOADING" ->
            [s EXCEPT !.isLoading = action.loading]
      [] OTHER -> s

dispatch(w, action) ==
    LET w2 == [w EXCEPT !.state = authReducer(w.state, action)]
    IN  [w2 EXCEPT !.effects = Append(@, snapshot(w2, action.type))]

\* the world a handler starts from
World == [state |-> state, localStorage |-> localStorage, effects |-> <<>>]

Commit(w) ==
    /\ state' = w.state
    /\ localStorage' = w.localStorage
    /\ effects' = w.effects

----------------------------------------------------------------------------
(* AuthProvider: the bodies of initAuth, login, register, logout, clearError *)

\* || on a message that may be absent
orElse(msg, fallback) == IF truthy(msg) THEN msg ELSE fallback

initAuthNoCredentialsKeepsLoading(w) == w

initAuthNoCredentials(w) == dispatch(w, SET_LOADING(FALSE))

initAuthOnSuccessStoredUser(w, u, t) ==
    dispatch(w, AUTH_SUCCESS(getStoredUser(w.localStorage), t))

initAuthOnSuccess(w, u, t) == dispatch(w, AUTH_SUCCESS(u, t))

initAuthOnFailureKeepsStorage(w) == dispatch(w, AUTH_FAILURE("Session expired"))

initAuthOnFailure(w) == dispatch(clearAuthData(w), AUTH_FAILURE("Session expired"))

loginStart(w) == dispatch(w, AUTH_START)

loginOnSuccessDispatchFirst(w, u, t) == storeAuthData(dispatch(w, AUTH_SUCCESS(u, t)), u, t)

loginOnSuccess(w, u, t) == dispatch(storeAuthData(w, u, t), AUTH_SUCCESS(u, t))

\* throw error: the promise returned by login()/register() rejects
rethrow(w) == [w EXCEPT !.effects = Append(@, snapshot(w, "throw"))]

rethrown(w) == \E i \in DOMAIN w.effects : w.effects[i].eff = "throw"

loginOnFailureSwallows(w, msg) == dispatch(w, AUTH_FAILURE(orElse(msg, "Login failed")))

loginOnFailure(w, msg) == rethrow(dispatch(w, AUTH_FAILURE(orElse(msg, "Login failed"))))

registerStart(w) == dispatch(w, AUTH_START)

registerOnSuccess(w, u, t) == dispatch(storeAuthData(w, u, t), AUTH_SUCCESS(u, t))

registerOnFailure(w, msg) ==
    rethrow(dispatch(w, AUTH_FAILURE(orElse(msg, "Registration failed"))))

logoutKeepsStorage(w) == dispatch(w, LOGOUT)

logout(w) == dispatch(clearAuthData(w), LOGOUT)

clearErrorResetsSession(w) == dispatch(w, LOGOUT)

clearError(w) == dispatch(w, CLEAR_ERROR)

----------------------------------------------------------------------------
(* Session actions *)

Op(name) == [op |-> name, user |-> null, token |-> null, msg |-> null]

\* the mount effect up to its await (or to its end when nothing is persisted)
InitAuth ==
    /\ initPc = "start"
    /\ LET token == localStorage["token"]
           storedUser == getStoredUser(localStorage)
       IN  IF truthy(token) /\ truthy(storedUser)
           THEN /\ initPc' = "verifying"
                /\ initToken' = token
                /\ effects' = <<>>
                /\ UNCHANGED <<state, localStorage>>
           ELSE /\ initPc' = "done"
                /\ initToken' = token
                /\ Commit(initAuthNoCredentials(World))
    /\ lastOp' = Op("initAuth")
    /\ UNCHANGED <<pending, thrown>>
    /\ UNCHANGED <<pageVars, uploadVars, formVars, routeVars>>

\* authService.getCurrentUser() resolved with response.data.user = u
InitAuthSuccess(u) ==
    /\ initPc = "verifying"
    /\ initPc' = "done"
    /\ Commit(initAuthOnSuccess(World, u, initToken))
    /\ lastOp' = [Op("initAuthSuccess") EXCEPT !.user = u, !.token = initToken]
    /\ UNCHANGED <<initToken, pending, thrown>>
    /\ UNCHANGED <<pageVars, uploadVars, formVars, routeVars>>

\* authService.getCurrentUser() rejected
InitAuthFailure ==
    /\ initPc = "verifying"
    /\ initPc' = "done"
    /\ Commit(initAuthOnFailure(World))
    /\ lastOp' = Op("initAuthFailure")
    /\ UNCHANGED <<initToken, pending, thrown>>
    /\ UNCHANGED <<pageVars, uploadVars, formVars, routeVars>>

NPending == pending["login"] + pending["register"]

\* login(credentials) up to its await
Login ==
    /\ initPc # "start"
    /\ NPending < MaxPending
    /\ Commit(loginStart(World))
    /\ pending' = [pending EXCEPT !["login"] = @ + 1]
    /\ lastOp' = Op("login")
    /\ UNCHANGED <<initPc, initToken, thrown>>
    /\ UNCHANGED <<pageVars, uploadVars, formVars, routeVars>>

LoginSuccess(u, t) ==
    /\ pending["login"] > 0
    /\ pending' = [pending EXCEPT !["login"] = @ - 1]
    /\ Commit(loginOnSuccess(World, u, t))
    /\ lastOp' = [Op("loginSuccess") EXCEPT !.user = u, !.token = t]
    /\ UNCHANGED <<initPc, initToken, thrown>>
    /\ UNCHANGED <<pageVars, uploadVars, formVars, routeVars>>

LoginFailure(msg) ==
    /\ pending["login"] > 0
    /\ pending' = [pending EXCEPT !["login"] = @ - 1]
    /\ Commit(loginOnFailure(World, msg))
    /\ thrown' = [thrown EXCEPT !["login"] =
                      IF rethrown(loginOnFailure(World, msg)) /\ @ < MaxThrown THEN @ + 1 ELSE @]
    /\ lastOp' = [Op("loginFailure") EXCEPT !.msg = msg]
    /\ UNCHANGED <<initPc, initToken>>
    /\ UNCHANGED <<pageVars, uploadVars, formVars, routeVars>>

Register ==
    /\ initPc # "start"
    /\ NPending < MaxPending
    /\ Commit(registerStart(World))
    /\ pending' = [pending EXCEPT !["register"] = @ + 1]
    /\ lastOp' = Op("register")
    /\ UNCHANGED <<initPc, initToken, thrown>>
    /\ UNCHANGED <<pageVars, uploadVars, formVars, routeVars>>

RegisterSuccess(u, t) ==
    /\ pending["register"] > 0
    /\ pending' = [pending EXCEPT !["register"] = @ - 1]
    /\ Commit(registerOnSuccess(World, u, t))
    /\ lastOp' = [Op("registerSuccess") EXCEPT !.user = u, !.token = t]
    /\ UNCHANGED <<initPc, initToken, thrown>>
    /\ UNCHANGED <<pageVars, uploadVars, formVars, routeVars>>

RegisterFailure(msg) ==
    /\ pending["register"] > 0
    /\ pending' = [pending EXCEPT !["register"] = @ - 1]
    /\ Commit(registerOnFailure(World, msg))
    /\ thrown' = [thrown EXCEPT !["register"] =
                      IF rethrown(registerOnFailure(World, msg)) /\ @ < MaxThrown THEN @ + 1 ELSE @]
    /\ lastOp' = [Op("registerFailure") EXCEPT !.msg = msg]
    /\ UNCHANGED <<initPc, initToken>>
    /\ UNCHANGED <<pageVars, uploadVars, formVars, routeVars>>

Logout ==
    /\ initPc # "start"
    /\ Commit(logout(World))
    /\ lastOp' = Op("logout")
    /\ UNCHANGED <<initPc, initToken, pending, thrown>>
    /\ UNCHANGED <<pageVars, uploadVars, formVars, routeVars>>

ClearError ==
    /\ initPc # "start"
    /\ Commit(clearError(World))
    /\ lastOp' = Op("clearError")
    /\ UNCHANGED <<initPc, initToken, pending, thrown>>
    /\ UNCHANGED <<pageVars, uploadVars, formVars, routeVars>>

----------------------------------------------------------------------------
(* problemService and the REST API behind it *)

\* one problem statement, "p1", stands for the collection
ProblemId == "p1"

STATUSES == {"Active", "Draft", "Archived"}

\* writes the server applies before the model stops applying more
MaxWrites == 1

\* write requests in flight at the same time
MaxMutations == 1

\* where a control is pressed again: write requests in flight at the same time
MaxRepeats == 2

\* cached data: the server state a GET was answered from; NoData is undefined
NoData == [version |-> -1, status |-> "none"]

\* response.data of GET /problems?... and of GET /problems/stats
getResponse == [version |-> server.version, status |-> server.status]

\* ids on the page GET /problems returns for filters f (the server filters)
rowsOf(f, data) ==
    IF data # NoData /\ (f.status = null \/ f.status = data.status)
    THEN {ProblemId} ELSE {}

----------------------------------------------------------------------------
(* QueryClient (new QueryClient(), default options: staleTime 0) *)

\* the useState initial value of filters; status undefined is null
defaultFilters == [page |-> 1, limit |-> 10, status |-> null]

ProblemsKey(f) == <<"problems", f>>

StatsKey == <<"problem-stats">>

QueryKeySeq ==
    <<ProblemsKey(defaultFilters),
      ProblemsKey([defaultFilters EXCEPT !.status = "Archived"]),
      StatsKey>>

QueryKeys == {QueryKeySeq[i] : i \in DOMAIN QueryKeySeq}

\* a query the cache does not hold yet
noQuery ==
    [exists |-> FALSE, data |-> NoData, isInvalidated |-> FALSE,
     net |-> "idle", resp |-> NoData]

ObserverIds == {"ProblemList.problems", "ProblemList.stats", "ProblemManagement.stats"}

NoKey == <<>>

noObserver == [key |-> NoKey, data |-> NoData]

\* queryKey prefix match, as invalidateQueries({ queryKey }) filters
matchesKey(k, prefix) ==
    /\ Len(prefix) <= Len(k)
    /\ \A i \in 1..Len(prefix) : k[i] = prefix[i]

isActive(w, k) == \E o \in ObserverIds : w.obs[o].key = k

isFetching(q) == q.net # "idle"

Eff(name, k) ==
    [eff |-> name, key |-> k, wasFetching |-> FALSE, text |-> "", detail |-> ""]

sendGet(w, k) ==
    [w EXCEPT !.queries[k].net = "sent",
              !.queries[k].resp = NoData,
              !.effects = Append(@, Eff("GET", k))]

\* Query.fetch: a fetch in flight is joined, unless cancelRefetch asks for a
\* new one and the query already holds data
fetchQueryAlwaysSends(w, k, cancelRefetch) == sendGet(w, k)

fetchQueryNeverCancels(w, k, cancelRefetch) ==
    IF isFetching(w.queries[k]) THEN w ELSE sendGet(w, k)

fetchQuery(w, k, cancelRefetch) ==
    LET q == w.queries[k]
    IN  IF isFetching(q) /\ ~(q.data # NoData /\ cancelRefetch)
        THEN w
        ELSE sendGet(w, k)

\* useQuery mounting (or switching to) key k: the observer takes the cached
\* data at once and, the data being stale at staleTime 0, fetches
subscribe(w, o, k) ==
    LET q  == w.queries[k]
        w1 == [w EXCEPT !.queries[k].exists = TRUE,
                        !.obs[o] = [key |-> k, data |-> q.data],
                        !.effects = Append(@, [Eff("subscribe", k)
                                                 EXCEPT !.wasFetching = isFetching(q)])]
    IN  fetchQuery(w1, k, FALSE)

unsubscribe(w, o) == [w EXCEPT !.obs[o] = noObserver]

RECURSIVE refetchActive(_, _, _)
refetchActive(w, prefix, i) ==
    IF i > Len(QueryKeySeq) THEN w
    ELSE LET k == QueryKeySeq[i]
         IN  refetchActive(
                 IF w.queries[k].exists /\ matchesKey(k, prefix) /\ isActive(w, k)
                 THEN fetchQuery(w, k, TRUE) ELSE w,
                 prefix, i + 1)

markInvalidated(w, prefix) ==
    [w EXCEPT !.queries = [k \in QueryKeys |->
                  IF w.queries[k].exists /\ matchesKey(k, prefix)
                  THEN [w.queries[k] EXCEPT !.isInvalidated = TRUE]
                  ELSE w.queries[k]],
              !.effects = Append(@, Eff("invalidateQueries", prefix))]

\* queryClient.invalidateQueries({ queryKey: prefix }): every matching query is
\* marked invalidated and the active ones are refetched (cancelRefetch)
invalidateQueries(w, prefix) == refetchActive(markInvalidated(w, prefix), prefix, 1)

toast(w, title, description) ==
    [w EXCEPT !.effects = Append(@, [Eff("toast", NoKey) EXCEPT !.text = title,
                                                                !.detail = description])]

----------------------------------------------------------------------------
(* ProblemForm: field values and the zod schema *)

DOMAINS ==
    {"AI & Machine Learning", "IoT & Embedded Systems", "Cloud Computing",
     "Web & Mobile Applications", "Cybersecurity & Blockchain",
     "Data Science & Analytics", "Networking & Communication",
     "Mechanical / ECE Projects"}

CATEGORIES == {"Major", "Minor", "Capstone"}

DIFFICULTIES == {"Beginner", "Intermediate", "Advanced"}

TitleMin == 5

TitleMax == 200

AbstractMin == 50

AbstractMax == 5000

DurationMin == 1

DurationMax == 50

ListMin == 1

\* text fields are held by their length, array fields by their number of items
problemSchemaTitleOpenBounds(data) ==
    {f \in {"title"} : ~(data.title > TitleMin /\ data.title < TitleMax)}
    \cup {f \in {"abstract"} : ~(data.abstract >= AbstractMin /\ data.abstract <= AbstractMax)}
    \cup {f \in {"domain"} : data.domain \notin DOMAINS}
    \cup {f \in {"category"} : data.category \notin CATEGORIES}
    \cup {f \in {"difficulty"} : data.difficulty \notin DIFFICULTIES}
    \cup {f \in {"duration"} : ~(data.duration >= DurationMin /\ data.duration <= DurationMax)}
    \cup {f \in {"technologies"} : data.technologies < ListMin}
    \cup {f \in {"deliverables"} : data.deliverables < ListMin}

\* zodResolver(problemSchema): the fields that fail
problemSchema(data) ==
    {f \in {"title"} : ~(data.title >= TitleMin /\ data.title <= TitleMax)}
    \cup {f \in {"abstract"} : ~(data.abstract >= AbstractMin /\ data.abstract <= AbstractMax)}
    \cup {f \in {"domain"} : data.domain \notin DOMAINS}
    \cup {f \in {"category"} : data.category \notin CATEGORIES}
    \cup {f \in {"difficulty"} : data.difficulty \notin DIFFICULTIES}
    \cup {f \in {"duration"} : ~(data.duration >= DurationMin /\ data.duration <= DurationMax)}
    \cup {f \in {"technologies"} : data.technologies < ListMin}
    \cup {f \in {"deliverables"} : data.deliverables < ListMin}

\* useForm defaultValues for a new problem
emptyForm ==
    [title |-> 0, abstract |-> 0, domain |-> "", category |-> "Major",
     difficulty |-> "Intermediate", duration |-> 0, technologies |-> 0,
     deliverables |-> 0]

\* the field values of the stored problem p1
storedForm ==
    [title |-> 20, abstract |-> 120, domain |-> "Cloud Computing", category |-> "Minor",
     difficulty |-> "Beginner", duration |-> 8, technologies |-> 2, deliverables |-> 1]

defaultValues(problem) == IF problem = null THEN emptyForm ELSE storedForm

isDirty(w) == w.form # defaultValues(w.editingProblem)

----------------------------------------------------------------------------
(* Mutations (useMutation) *)

\* uploadResult === null
NoResult ==
    [success |-> FALSE, message |-> "", hasData |-> FALSE, imported |-> 0,
     failed |-> 0, errors |-> <<>>]

\* selectedFile === null
NoFile == [type |-> "", name |-> <<>>]

\* a write request: mode is the form's mode prop when it was submitted, orphan
\* tells that the BulkUpload instance that sent it has been unmounted
Mutation(kind) ==
    [kind |-> kind, status |-> null, file |-> NoFile, data |-> emptyForm,
     mode |-> null, orphan |-> FALSE, phase |-> "sent", version |-> 0,
     result |-> NoResult, id |-> 0]

isPending(w, kind) == \E m \in w.mutations : m.kind = kind

mutate(w, m) ==
    [w EXCEPT !.mutations = @ \cup {[m EXCEPT !.id =
                    CHOOSE i \in 1..(Cardinality(w.mutations) + 1) :
                        \A x \in w.mutations : x.id # i]},
              !.effects = Append(@, [Eff("request", NoKey) EXCEPT !.text = m.kind])]

\* a rejected request: error.response.data.message, error.response.data.error,
\* error.response.data.errors joined, error.message; null where absent
NetworkError ==
    [respMessage |-> null, respError |-> null, respErrors |-> null,
     message |-> "Network Error"]

AxiosErrors ==
    {[respMessage |-> "Title already exists", respError |-> null,
      respErrors |-> null, message |-> "Request failed with status code 400"],
     [respMessage |-> null, respError |-> "Forbidden",
      respErrors |-> "Title is required, Abstract is too short",
      message |-> "Request failed with status code 400"],
     NetworkError}

----------------------------------------------------------------------------
(* Rendering: which components are on screen for the current viewMode *)

\* more intervals than this are not running at the same time
MaxTimers == 2

ProgressStep == 10

ProgressCap == 90

ProgressDone == 100

\* the useState initial values of a BulkUpload instance
initialUpload(w) ==
    [w EXCEPT !.selectedFile = NoFile, !.uploadProgress = 0, !.uploadResult = NoResult,
              !.isDragging = FALSE, !.isProcessing = FALSE]

\* BulkUpload unmounts: its state is gone, while its intervals and its upload
\* requests live on without a component to update. The intervals are counted
\* by the progress the instance last rendered: below the cap, or at or above it
unmountUpload(w) ==
    [initialUpload(w) EXCEPT
        !.uploadOpen = FALSE,
        !.timers = IF w.uploadProgress >= ProgressCap
                   THEN [attached |-> 0, orphaned |-> @.orphaned,
                         orphanedAtCap |-> @.orphanedAtCap + @.attached]
                   ELSE [attached |-> 0, orphaned |-> @.orphaned + @.attached,
                         orphanedAtCap |-> @.orphanedAtCap],
        !.mutations = {IF m.kind = "bulkUpload" THEN [m EXCEPT !.orphan = TRUE] ELSE m
                         : m \in @}]

\* the intervals that have not been cleared
timersRunning(w) == w.timers.attached + w.timers.orphaned + w.timers.orphanedAtCap

listShown(w) == w.mounted /\ w.viewMode = "list"

formShown(w) == w.mounted /\ w.viewMode \in {"create", "edit"}

listMounted(w) == w.obs["ProblemList.problems"].key # NoKey

mountProblemList(w) ==
    LET w1 == [w EXCEPT !.filters = defaultFilters]
        w2 == subscribe(w1, "ProblemList.problems", ProblemsKey(w1.filters))
    IN  subscribe(w2, "ProblemList.stats", StatsKey)

unmountProblemList(w) ==
    unsubscribe(unsubscribe([w EXCEPT !.filters = defaultFilters],
                            "ProblemList.problems"), "ProblemList.stats")

renderList(w) ==
    IF listShown(w) /\ ~listMounted(w) THEN mountProblemList(w)
    ELSE IF ~listShown(w) /\ listMounted(w) THEN unmountProblemList(w)
    ELSE w

renderForm(w, was) ==
    IF formShown(w) /\ ~was
    THEN [w EXCEPT !.form = defaultValues(w.editingProblem), !.errors = {}]
    ELSE IF ~formShown(w) /\ was
    THEN [w EXCEPT !.form = emptyForm, !.errors = {}]
    ELSE w

renderUpload(w) ==
    IF ~w.mounted THEN w
    ELSE IF w.viewMode = "bulk-upload" /\ ~w.uploadOpen
    THEN initialUpload([w EXCEPT !.uploadOpen = TRUE])
    ELSE IF w.viewMode # "bulk-upload" /\ w.uploadOpen
    THEN unmountUpload(w)
    ELSE w

\* the commit that follows a handler: was is the world the handler started from
render(w, was) == renderUpload(renderForm(renderList(w), formShown(was)))

----------------------------------------------------------------------------
(* ProblemManagement *)

handleCreateKeepsEditing(w) == render([w EXCEPT !.viewMode = "create"], w)

handleCreate(w) == render([w EXCEPT !.editingProblem = null, !.viewMode = "create"], w)

handleEdit(w, problem) ==
    render([w EXCEPT !.editingProblem = problem, !.viewMode = "edit"], w)

handleBulkUpload(w) == render([w EXCEPT !.viewMode = "bulk-upload"], w)

handleCancel(w) == render([w EXCEPT !.viewMode = "list", !.editingProblem = null], w)

handleBulkUploadClose(w) == render([w EXCEPT !.viewMode = "list"], w)

handleSubmit(w, data, mode) ==
    IF w.editingProblem # null
    THEN mutate(w, [Mutation("update") EXCEPT !.data = data, !.mode = mode])
    ELSE mutate(w, [Mutation("create") EXCEPT !.data = data, !.mode = mode])

invalidateOnlyProblems(w) == invalidateQueries(w, <<"problems">>)

\* the two invalidateQueries calls every onSuccess starts with
invalidateBoth(w) ==
    invalidateQueries(invalidateQueries(w, <<"problems">>), <<"problem-stats">>)

\* setViewMode('list') of a mounted ProblemManagement
setViewMode(w, mode) ==
    [w EXCEPT !.viewMode = mode,
              !.effects = Append(@, [Eff("setViewMode", NoKey) EXCEPT !.text = mode])]

\* the state setters of an unmounted ProblemManagement change nothing
createOnSuccessListFirst(w, m) ==
    LET w1 == IF m.orphan THEN w ELSE setViewMode(w, "list")
    IN  toast(invalidateBoth(w1), "Success", "Problem statement created successfully!")

createOnSuccess(w, m) ==
    LET w1 == invalidateBoth(w)
        w2 == IF m.orphan THEN w1 ELSE setViewMode(w1, "list")
    IN  toast(w2, "Success", "Problem statement created successfully!")

createOnError(w, error) ==
    toast(w, "Error", orElse(error.message, "Failed to create problem statement"))

updateOnSuccess(w, m) ==
    LET w1 == invalidateBoth(w)
        w2 == IF m.orphan THEN w1
              ELSE [setViewMode(w1, "list") EXCEPT !.editingProblem = null]
    IN  toast(w2, "Success", "Problem statement updated successfully!")

updateOnError(w, error) ==
    toast(w, "Error", orElse(error.message, "Failed to update problem statement"))

----------------------------------------------------------------------------
(* ProblemForm *)

\* onSubmitForm after await onSubmit(data) returned
onSubmitFormDone(w, mode) ==
    toast(w, "Success",
          IF mode = "create" THEN "Problem statement created successfully!"
          ELSE "Problem statement updated successfully!")

\* onSubmitForm's catch
onSubmitFormCatch(w, mode, error) ==
    toast(w, "Error",
          IF truthy(error.respMessage) THEN error.respMessage
          ELSE IF truthy(error.respErrors) THEN error.respErrors
          ELSE IF truthy(error.message) THEN error.message
          ELSE IF mode = "create" THEN "Failed to create problem statement."
          ELSE "Failed to update problem statement.")

\* handleSubmit(onSubmitForm) of react-hook-form: the resolver runs first and
\* onSubmitForm is called only when no field fails
submitForm(w) ==
    LET failed == problemSchema(w.form)
    IN  IF failed # {}
        THEN [w EXCEPT !.errors = failed]
        ELSE handleSubmit([w EXCEPT !.errors = {}], w.form, w.viewMode)

----------------------------------------------------------------------------
(* ProblemList *)

listKey(w) == ProblemsKey(w.filters)

\* the rows on screen
shownRows(w) == rowsOf(w.filters, w.obs["ProblemList.problems"].data)

handleFilterChange(w, value) ==
    LET w1 == [w EXCEPT !.filters = [@ EXCEPT !.status = IF value = "all" THEN null ELSE value,
                                              !.page = 1]]
    IN  IF listKey(w1) = listKey(w) THEN w1
        ELSE subscribe(unsubscribe(w1, "ProblemList.problems"),
                       "ProblemList.problems", listKey(w1))

handleStatusUpdate(w, id, status) ==
    mutate(w, [Mutation("updateStatus") EXCEPT !.status = status])

handleFeaturedToggle(w, id) == mutate(w, Mutation("toggleFeatured"))

handleDeleteWithoutConfirm(w, id, confirmed) == mutate(w, Mutation("delete"))

handleDelete(w, id, confirmed) ==
    IF confirmed THEN mutate(w, Mutation("delete")) ELSE w

\* the message lines 83-91 and 116-124 extract
listErrorMessage(error, fallback) ==
    IF truthy(error.respMessage) THEN error.respMessage
    ELSE IF truthy(error.respError) THEN error.respError
    ELSE IF truthy(error.message) THEN error.message
    ELSE fallback

updateStatusOnSuccess(w) ==
    toast(invalidateBoth(w), "Success", "Problem status updated successfully!")

updateStatusOnError(w, error) ==
    toast(w, "Error", listErrorMessage(error, "Failed to update problem status."))

toggleFeaturedOnSuccess(w) ==
    toast(invalidateBoth(w), "Success", "Featured status updated successfully!")

toggleFeaturedOnError(w, error) ==
    toast(w, "Error", listErrorMessage(error, "Failed to update featured status."))

deleteOnSuccess(w) ==
    toast(invalidateBoth(w), "Success", "Problem deleted successfully!")

deleteOnError(w, error) == toast(w, "Error", "Failed to delete problem.")

----------------------------------------------------------------------------
(* BulkUpload *)

\* File objects the user can pick: declared MIME type and name
CsvName == <<"a", ".", "c", "s", "v">>

Files ==
    {[type |-> "text/csv", name |-> CsvName],
     [type |-> "application/vnd.ms-excel", name |-> CsvName],
     [type |-> "text/csv", name |-> <<"d", "a", "t", "a">>],
     [type |-> "text/plain", name |-> <<"a", ".", "t", "x", "t">>],
     [type |-> "", name |-> <<"c", "s", "v">>],
     [type |-> "image/png", name |-> <<"a", ".", "c", "s", "v", ".", "p", "n", "g">>]}

\* String.prototype.endsWith
endsWith(name, suffix) ==
    /\ Len(suffix) <= Len(name)
    /\ SubSeq(name, Len(name) - Len(suffix) + 1, Len(name)) = suffix

dotCsv == <<".", "c", "s", "v">>

\* response.data of POST /problems/bulk-upload
RowErrors ==
    <<[row |-> 4, field |-> "title", message |-> "Title is required"],
      [row |-> 9, field |-> "validation", message |-> "Invalid domain"],
      [row |-> 17, field |-> "abstract", message |-> "Abstract is too short"]>>

\* some rows imported, some failed
PartialResult ==
    [success |-> TRUE, message |-> "Imported 22 of 25 problem statements",
     hasData |-> TRUE, imported |-> 22, failed |-> 3, errors |-> RowErrors]

UploadResults ==
    {[success |-> TRUE, message |-> "Imported 25 problem statements", hasData |-> TRUE,
      imported |-> 25, failed |-> 0, errors |-> <<>>],
     PartialResult,
     [success |-> FALSE, message |-> "Imported 22 problem statements, 3 rows failed",
      hasData |-> TRUE, imported |-> 22, failed |-> 3, errors |-> RowErrors],
     [success |-> FALSE, message |-> "No valid rows found", hasData |-> FALSE,
      imported |-> 0, failed |-> 0, errors |-> <<>>]}

handleFileSelectAcceptsAll(w, file) ==
    [w EXCEPT !.selectedFile = file, !.uploadResult = NoResult]

handleFileSelect(w, file) ==
    IF file.type # "text/csv" /\ ~endsWith(file.name, dotCsv)
    THEN toast(w, "Invalid File Type", "Please select a CSV file")
    ELSE [w EXCEPT !.selectedFile = file, !.uploadResult = NoResult]

handleDrop(w, files) ==
    LET w1 == [w EXCEPT !.isDragging = FALSE]
    IN  IF Len(files) > 0 THEN handleFileSelect(w1, files[1]) ELSE w1

handleDragOver(w) == [w EXCEPT !.isDragging = TRUE]

handleDragLeave(w) == [w EXCEPT !.isDragging = FALSE]

handleFileInputChange(w, files) ==
    IF Len(files) > 0 THEN handleFileSelect(w, files[1]) ELSE w

uploadOnMutate(w) ==
    [w EXCEPT !.isProcessing = TRUE,
              !.uploadProgress = 0,
              !.timers.attached = @ + 1]

handleUpload(w) ==
    IF w.selectedFile # NoFile
    THEN mutate(uploadOnMutate(w), [Mutation("bulkUpload") EXCEPT !.file = w.selectedFile])
    ELSE w

handleRemoveFile(w) == [w EXCEPT !.selectedFile = NoFile, !.uploadResult = NoResult]

\* one firing of an interval of the mounted BulkUpload: the updater of lines 57-63
tick(w) ==
    IF w.uploadProgress >= ProgressCap
    THEN [w EXCEPT !.timers.attached = @ - 1, !.uploadProgress = ProgressCap]
    ELSE [w EXCEPT !.uploadProgress = @ + ProgressStep]

\* one firing of an interval whose BulkUpload has unmounted: the component is
\* never rendered again, so the updater of lines 57-63 is applied at most to the
\* progress the instance last rendered and that progress never advances. The
\* interval is cleared only when that progress is at the cap and the updater is
\* run (ran); below the cap no firing reaches clearInterval
orphanTick(w, ran) ==
    IF ran /\ w.timers.orphanedAtCap > 0
    THEN [w EXCEPT !.timers.orphanedAtCap = @ - 1]
    ELSE w

uploadToast(w, result) ==
    IF result.success
    THEN toast(w, "Upload Successful",
               "Successfully imported "
                 \o ToString(IF result.hasData THEN result.imported ELSE 0)
                 \o " problem statements")
    ELSE toast(w, "Upload Completed with Errors", result.message)

\* the state setters of an unmounted instance change nothing
uploadOnSuccess(w, m, result) ==
    LET w1 == IF m.orphan THEN w
              ELSE [w EXCEPT !.uploadProgress = ProgressDone,
                             !.isProcessing = FALSE,
                             !.uploadResult = result]
    IN  uploadToast(invalidateBoth(w1), result)

uploadOnError(w, m, error) ==
    LET w1 == IF m.orphan THEN w
              ELSE [w EXCEPT !.isProcessing = FALSE, !.uploadProgress = 0]
    IN  toast(w1, "Upload Failed", orElse(error.message, "Failed to upload file"))

\* what the Upload Results section (lines 292-357) puts on screen
uploadResultsView(w) ==
    LET r == w.uploadResult
    IN  [shown    |-> r # NoResult,
         ok       |-> r.success,
         message  |-> r.message,
         imported |-> IF r.hasData THEN r.imported ELSE -1,
         failed   |-> IF r.hasData THEN r.failed ELSE -1,
         rows     |-> IF r.hasData /\ Len(r.errors) > 0
                      THEN [i \in 1..Len(r.errors) |->
                              [row |-> r.errors[i].row, message |-> r.errors[i].message]]
                      ELSE <<>>]

----------------------------------------------------------------------------
(* The problem views as a state machine *)

PageWorld ==
    [queries |-> queries, obs |-> obs, mutations |-> mutations, completed |-> completed,
     mounted |-> mounted, viewMode |-> viewMode, editingProblem |-> editingProblem,
     filters |-> filters, uploadOpen |-> uploadOpen, selectedFile |-> selectedFile,
     uploadProgress |-> uploadProgress, uploadResult |-> uploadResult,
     isDragging |-> isDragging, isProcessing |-> isProcessing, timers |-> timers,
     form |-> form, errors |-> errors, location |-> location, effects |-> <<>>]

PageOp(name, kind) == [op |-> name, kind |-> kind]

CommitPage(w, op) ==
    /\ queries' = w.queries
    /\ obs' = w.obs
    /\ mutations' = w.mutations
    /\ completed' = w.completed
    /\ mounted' = w.mounted
    /\ viewMode' = w.viewMode
    /\ editingProblem' = w.editingProblem
    /\ filters' = w.filters
    /\ uploadOpen' = w.uploadOpen
    /\ selectedFile' = w.selectedFile
    /\ uploadProgress' = w.uploadProgress
    /\ uploadResult' = w.uploadResult
    /\ isDragging' = w.isDragging
    /\ isProcessing' = w.isProcessing
    /\ timers' = w.timers
    /\ form' = w.form
    /\ errors' = w.errors
    /\ location' = w.location
    /\ effects' = w.effects
    /\ lastOp' = op
    /\ UNCHANGED <<authVars, server>>

\* a write request can be started: the model keeps fewer than n in flight
CanMutateWithin(n) == Cardinality(mutations) < n

CanMutate == CanMutateWithin(MaxMutations)

\* <Route path="problems">: ProtectedRoute lets an authenticated session in
MountPage ==
    /\ ~mounted
    /\ state.isAuthenticated
    /\ LET w0 == [PageWorld EXCEPT !.mounted = TRUE, !.viewMode = "list",
                                   !.editingProblem = null, !.location = "/problems"]
           w1 == render(w0, PageWorld)
       IN  CommitPage(subscribe(w1, "ProblemManagement.stats", StatsKey),
                      PageOp("mount", null))

\* navigation to another route: the components' state is gone, their requests
\* in flight live on
UnmountPage ==
    /\ mounted
    /\ LET w0 == [PageWorld EXCEPT !.mounted = FALSE, !.viewMode = "list",
                                   !.editingProblem = null, !.location = "/dashboard",
                                   !.mutations = {[m EXCEPT !.orphan = TRUE] : m \in @}]
           w1 == renderForm(renderList(w0), formShown(PageWorld))
           w2 == IF w1.uploadOpen THEN unmountUpload(w1) ELSE w1
       IN  CommitPage(unsubscribe(w2, "ProblemManagement.stats"),
                      PageOp("unmount", null))

\* the row of p1 is on screen with its dropdown menu
RowShown == listShown(PageWorld) /\ ProblemId \in shownRows(PageWorld)

HandleCreate ==
    /\ listShown(PageWorld)
    /\ CommitPage(handleCreate(PageWorld), PageOp("handleCreate", null))

HandleEdit ==
    /\ RowShown
    /\ CommitPage(handleEdit(PageWorld, ProblemId), PageOp("handleEdit", null))

HandleBulkUpload ==
    /\ listShown(PageWorld)
    /\ CommitPage(handleBulkUpload(PageWorld), PageOp("handleBulkUpload", null))

HandleCancel ==
    /\ formShown(PageWorld)
    /\ CommitPage(handleCancel(PageWorld), PageOp("handleCancel", null))

\* the X button, the Close button (disabled while processing) and Done
HandleBulkUploadClose ==
    /\ mounted /\ uploadOpen
    /\ CommitPage(handleBulkUploadClose(PageWorld), PageOp("handleBulkUploadClose", null))

\* the user edits fields until the form holds data
EditFields(data) ==
    /\ formShown(PageWorld)
    /\ data # form
    /\ CommitPage([PageWorld EXCEPT !.form = data], PageOp("edit", null))

\* the submit button: disabled={isLoading || !isDirty}
SubmitFormWithin(n) ==
    /\ formShown(PageWorld)
    /\ ~(isPending(PageWorld, "create") \/ isPending(PageWorld, "update"))
    /\ isDirty(PageWorld)
    /\ CanMutateWithin(n)
    /\ CommitPage(submitForm(PageWorld), PageOp("submit", viewMode))

SubmitForm == SubmitFormWithin(MaxMutations)

HandleFilterChange(value) ==
    /\ listShown(PageWorld)
    /\ CommitPage(handleFilterChange(PageWorld, value), PageOp("handleFilterChange", null))

\* a status item of the row menu: disabled={problem.status === status}
HandleStatusUpdateWithin(status, n) ==
    /\ RowShown
    /\ status \in STATUSES
    /\ obs["ProblemList.problems"].data.status # status
    /\ CanMutateWithin(n)
    /\ CommitPage(handleStatusUpdate(PageWorld, ProblemId, status),
                  PageOp("handleStatusUpdate", null))

HandleStatusUpdate(status) == HandleStatusUpdateWithin(status, MaxMutations)

\* the featured item of the row menu: never disabled
HandleFeaturedToggleWithin(n) ==
    /\ RowShown
    /\ CanMutateWithin(n)
    /\ CommitPage(handleFeaturedToggle(PageWorld, ProblemId),
                  PageOp("handleFeaturedToggle", null))

HandleFeaturedToggle == HandleFeaturedToggleWithin(MaxMutations)

\* the delete item of the row menu, never disabled; confirmed is the answer to
\* window.confirm
HandleDeleteWithin(confirmed, n) ==
    /\ RowShown
    /\ CanMutateWithin(n)
    /\ CommitPage(handleDelete(PageWorld, ProblemId, confirmed),
                  PageOp("handleDelete", IF confirmed THEN "confirmed" ELSE "declined"))

HandleDelete(confirmed) == HandleDeleteWithin(confirmed, MaxMutations)

\* the server applies a write: p1 must still exist for a write that names it
ServerApply(m, result) ==
    /\ m \in mutations
    /\ m.phase = "sent"
    /\ server.version < MaxWrites
    /\ m.kind \in {"update", "delete", "updateStatus", "toggleFeatured"}
         => server.status # "none"
    /\ (m.kind = "bulkUpload") = (result # NoResult)
    /\ server' = [version |-> server.version + 1,
                  status  |-> IF m.kind = "updateStatus" THEN m.status
                              ELSE IF m.kind = "delete" THEN "none"
                              ELSE server.status]
    /\ mutations' = (mutations \ {m}) \cup
                      {[m EXCEPT !.phase = "applied", !.version = server.version + 1,
                                 !.result = result]}
    /\ effects' = <<>>
    /\ lastOp' = PageOp("server", null)
    /\ UNCHANGED <<authVars, routeVars, queries, obs, completed, mounted, viewMode, editingProblem,
                   filters, uploadVars, formVars>>

onSuccessOf(w, m) ==
    CASE m.kind = "create"         -> onSubmitFormDone(createOnSuccess(w, m), m.mode)
      [] m.kind = "update"         -> onSubmitFormDone(updateOnSuccess(w, m), m.mode)
      [] m.kind = "updateStatus"   -> updateStatusOnSuccess(w)
      [] m.kind = "toggleFeatured" -> toggleFeaturedOnSuccess(w)
      [] m.kind = "delete"         -> deleteOnSuccess(w)
      [] m.kind = "bulkUpload"     -> uploadOnSuccess(w, m, m.result)

onErrorOf(w, m, error) ==
    CASE m.kind = "create"         -> onSubmitFormCatch(createOnError(w, error), m.mode, error)
      [] m.kind = "update"         -> onSubmitFormCatch(updateOnError(w, error), m.mode, error)
      [] m.kind = "updateStatus"   -> updateStatusOnError(w, error)
      [] m.kind = "toggleFeatured" -> toggleFeaturedOnError(w, error)
      [] m.kind = "delete"         -> deleteOnError(w, error)
      [] m.kind = "bulkUpload"     -> uploadOnError(w, m, error)

\* the response of an applied write arrives: onSuccess and, for the form's
\* requests, the rest of onSubmitForm
MutationSuccess(m) ==
    /\ m \in mutations
    /\ m.phase = "applied"
    /\ LET w0 == [PageWorld EXCEPT !.mutations = @ \ {m},
                                   !.completed = IF m.version > @ THEN m.version ELSE @]
       IN  CommitPage(render(onSuccessOf(w0, m), PageWorld),
                      PageOp("mutationSuccess", m.kind))

\* the request fails: onError and, for the form's requests, onSubmitForm's catch
MutationError(m, error) ==
    /\ m \in mutations
    /\ m.phase = "sent"
    /\ LET w0 == [PageWorld EXCEPT !.mutations = @ \ {m}]
       IN  CommitPage(render(onErrorOf(w0, m, error), PageWorld),
                      [op |-> "mutationError", kind |-> m.kind, error |-> error])

\* the server answers a GET from its current data
ServerAnswer(k) ==
    /\ queries[k].net = "sent"
    /\ queries' = [queries EXCEPT ![k].net = "answered", ![k].resp = getResponse]
    /\ effects' = <<>>
    /\ lastOp' = PageOp("server", null)
    /\ UNCHANGED <<authVars, routeVars, server, obs, mutations, completed, mounted, viewMode,
                   editingProblem, filters, uploadVars, formVars>>

\* the answer arrives: the query stores it and notifies its observers
QueryResolve(k) ==
    /\ queries[k].net = "answered"
    /\ queries' = [queries EXCEPT ![k].net = "idle",
                                  ![k].data = queries[k].resp,
                                  ![k].resp = NoData,
                                  ![k].isInvalidated = FALSE]
    /\ obs' = [o \in ObserverIds |->
                 IF obs[o].key = k THEN [obs[o] EXCEPT !.data = queries[k].resp]
                 ELSE obs[o]]
    /\ effects' = <<>>
    /\ lastOp' = PageOp("queryResolve", null)
    /\ UNCHANGED <<authVars, routeVars, server, mutations, completed, mounted, viewMode,
                   editingProblem, filters, uploadVars, formVars>>

\* the drop zone and the file input are rendered while no file is selected
DropZoneShown == uploadOpen /\ selectedFile = NoFile

\* the change event of the file input; lastOp keeps the file that was picked

HandleFileInputChange(files) ==
    /\ DropZoneShown
    /\ Len(files) > 0
    /\ CommitPage(handleFileInputChange(PageWorld, files),
                  PageOp("handleFileSelect", files[1]))

HandleDrop(files) ==
    /\ DropZoneShown
    /\ Len(files) > 0
    /\ CommitPage(handleDrop(PageWorld, files), PageOp("handleFileSelect", files[1]))

HandleDragOver ==
    /\ DropZoneShown
    /\ ~isDragging
    /\ CommitPage(handleDragOver(PageWorld), PageOp("handleDragOver", null))

HandleDragLeave ==
    /\ DropZoneShown
    /\ isDragging
    /\ CommitPage(handleDragLeave(PageWorld), PageOp("handleDragLeave", null))

\* the Upload File button: rendered for selectedFile && !uploadResult &&
\* !isProcessing, disabled={uploadMutation.isPending}
HandleUploadWithin(n) ==
    /\ uploadOpen
    /\ selectedFile # NoFile
    /\ uploadResult = NoResult
    /\ ~isProcessing
    /\ ~\E m \in mutations : m.kind = "bulkUpload" /\ ~m.orphan
    /\ CanMutateWithin(n)
    /\ timersRunning(PageWorld) < MaxTimers
    /\ CommitPage(handleUpload(PageWorld), PageOp("handleUpload", null))

HandleUpload == HandleUploadWithin(MaxMutations)

HandleRemoveFile ==
    /\ uploadOpen
    /\ selectedFile # NoFile
    /\ CommitPage(handleRemoveFile(PageWorld), PageOp("handleRemoveFile", null))

\* an interval of the mounted BulkUpload fires
Tick ==
    /\ uploadOpen
    /\ timers.attached > 0
    /\ CommitPage(tick(PageWorld), PageOp("tick", null))

\* an interval of an unmounted BulkUpload fires; beat tells one firing from the
\* next, which changes nothing else
OrphanTick(ran) ==
    /\ timers.orphaned + timers.orphanedAtCap > 0
    /\ ran => timers.orphanedAtCap > 0
    /\ CommitPage(orphanTick(PageWorld, ran),
                  [op |-> "orphanTick", kind |-> ran,
                   beat |-> IF lastOp.op = "orphanTick" THEN ~lastOp.beat ELSE FALSE])

----------------------------------------------------------------------------
(* Initial states and specifications *)

\* before /problems is visited: an empty cache, nothing on screen
InitPage ==
    /\ server = [version |-> 0, status |-> "Active"]
    /\ queries = [k \in QueryKeys |-> noQuery]
    /\ obs = [o \in ObserverIds |-> noObserver]
    /\ mutations = {}
    /\ completed = 0
    /\ mounted = FALSE
    /\ viewMode = "list"
    /\ editingProblem = null
    /\ filters = defaultFilters
    /\ uploadOpen = FALSE
    /\ selectedFile = NoFile
    /\ uploadProgress = 0
    /\ uploadResult = NoResult
    /\ isDragging = FALSE
    /\ isProcessing = FALSE
    /\ timers = [attached |-> 0, orphaned |-> 0, orphanedAtCap |-> 0]
    /\ form = emptyForm
    /\ errors = {}

----------------------------------------------------------------------------
(* The session machine: initial state and specification *)

\* what a previous run of the application left in localStorage
StoredAtStart ==
    {emptyStorage} \cup
    {[k \in {"user", "token"} |-> IF k = "user" THEN JSONstringify(u) ELSE t] :
        u \in Users, t \in Tokens}

InitSession ==
    /\ state = initialState
    /\ localStorage \in StoredAtStart
    /\ initPc = "start"
    /\ initToken = null
    /\ pending = [k \in {"login", "register"} |-> 0]
    /\ thrown = [k \in {"login", "register"} |-> 0]
    /\ effects = <<>>
    /\ lastOp = Op("mount")

Init == InitSession /\ InitPage /\ location = "/dashboard"

Next ==
    \/ InitAuth
    \/ \E u \in Users : InitAuthSuccess(u)
    \/ InitAuthFailure
    \/ Login
    \/ \E u \in Users, t \in Tokens : LoginSuccess(u, t)
    \/ \E msg \in ServerMessages : LoginFailure(msg)
    \/ Register
    \/ \E u \in Users, t \in Tokens : RegisterSuccess(u, t)
    \/ \E msg \in ServerMessages : RegisterFailure(msg)
    \/ Logout
    \/ ClearError

Spec == Init /\ [][Next]_vars

----------------------------------------------------------------------------
(* The problem views: initial states and specifications *)

\* ProtectedRoute: the problem views are used by a signed-in user
SignedIn ==
    /\ state = [initialState EXCEPT !.user = "u1", !.token = "tok1",
                                    !.isAuthenticated = TRUE, !.isLoading = FALSE]
    /\ localStorage = storeAuthData([state |-> initialState,
                                     localStorage |-> emptyStorage,
                                     effects |-> <<>>], "u1", "tok1").localStorage
    /\ initPc = "done"
    /\ initToken = null
    /\ pending = [k \in {"login", "register"} |-> 0]
    /\ thrown = [k \in {"login", "register"} |-> 0]
    /\ effects = <<>>
    /\ lastOp = PageOp("init", null)

\* a form the schema accepts
filledForm ==
    [title |-> 12, abstract |-> 80, domain |-> "Cloud Computing", category |-> "Major",
     difficulty |-> "Intermediate", duration |-> 7, technologies |-> 1,
     deliverables |-> 1]

\* /problems not visited yet
InitCache == SignedIn /\ InitPage /\ location = "/dashboard"

\* every write of the problem views, with the reads of the default list and of
\* the statistics
NextCache ==
    \/ MountPage
    \/ HandleCreate
    \/ HandleEdit
    \/ HandleCancel
    \/ EditFields(filledForm)
    \/ SubmitForm
    \/ \E s \in {"Archived"} : HandleStatusUpdate(s)
    \/ HandleFeaturedToggle
    \/ \E c \in BOOLEAN : HandleDelete(c)
    \/ HandleBulkUpload
    \/ HandleBulkUploadClose
    \/ HandleFileInputChange(<<[type |-> "text/csv", name |-> CsvName]>>)
    \/ HandleUpload
    \/ \E m \in mutations, r \in {PartialResult, NoResult} : ServerApply(m, r)
    \/ \E m \in mutations : MutationSuccess(m)
    \/ \E m \in mutations, e \in {NetworkError} : MutationError(m, e)
    \/ \E k \in QueryKeys : ServerAnswer(k)
    \/ \E k \in QueryKeys : QueryResolve(k)

SpecCache == InitCache /\ [][NextCache]_vars

\* reads under changing filters and navigation, against status changes
NextRead ==
    \/ MountPage
    \/ UnmountPage
    \/ \E v \in {"all", "Archived"} : HandleFilterChange(v)
    \/ \E s \in {"Active", "Archived"} : HandleStatusUpdate(s)
    \/ \E m \in mutations : ServerApply(m, NoResult)
    \/ \E m \in mutations : MutationSuccess(m)
    \/ \E m \in mutations, e \in {NetworkError} : MutationError(m, e)
    \/ \E k \in QueryKeys : ServerAnswer(k)
    \/ \E k \in QueryKeys : QueryResolve(k)

SpecRead == InitCache /\ [][NextRead]_vars

\* /problems after its first reads have been answered
warmQuery ==
    [noQuery EXCEPT !.exists = TRUE, !.data = [version |-> 0, status |-> "Active"]]

WarmList ==
    /\ server = [version |-> 0, status |-> "Active"]
    /\ queries = [k \in QueryKeys |->
                    IF k \in {ProblemsKey(defaultFilters), StatsKey} THEN warmQuery
                    ELSE noQuery]
    /\ obs = [o \in ObserverIds |->
                [key  |-> IF o = "ProblemList.problems" THEN ProblemsKey(defaultFilters)
                          ELSE StatsKey,
                 data |-> warmQuery.data]]
    /\ mutations = {}
    /\ completed = 0
    /\ mounted = TRUE
    /\ viewMode = "list"
    /\ editingProblem = null
    /\ filters = defaultFilters
    /\ uploadOpen = FALSE
    /\ selectedFile = NoFile
    /\ uploadProgress = 0
    /\ uploadResult = NoResult
    /\ isDragging = FALSE
    /\ isProcessing = FALSE
    /\ timers = [attached |-> 0, orphaned |-> 0, orphanedAtCap |-> 0]
    /\ form = emptyForm
    /\ errors = {}
    /\ location = "/problems"

InitWarm == SignedIn /\ WarmList

\* lengths around the limits of the schema
TitleLengths == {TitleMin - 1, TitleMin, TitleMax, TitleMax + 1}

AbstractLengths == {AbstractMin - 1, AbstractMin, AbstractMax, AbstractMax + 1}

\* what the user can bring the form to
FormInputs ==
    {[base EXCEPT !.title = t, !.abstract = a] :
        base \in {emptyForm, filledForm}, t \in TitleLengths, a \in AbstractLengths}

NextForm ==
    \/ HandleCreate
    \/ HandleEdit
    \/ HandleCancel
    \/ \E data \in FormInputs : EditFields(data)
    \/ SubmitForm
    \/ \E m \in mutations : ServerApply(m, NoResult)
    \/ \E m \in mutations : MutationSuccess(m)
    \/ \E m \in mutations, e \in AxiosErrors : MutationError(m, e)

SpecForm == InitWarm /\ [][NextForm]_vars

NextUpload ==
    \/ HandleBulkUpload
    \/ HandleBulkUploadClose
    \/ \E f \in Files : HandleFileInputChange(<<f>>)
    \/ \E f \in Files : HandleDrop(<<f>>)
    \/ HandleDragOver
    \/ HandleDragLeave
    \/ HandleUpload
    \/ HandleRemoveFile
    \/ Tick
    \/ \E ran \in BOOLEAN : OrphanTick(ran)
    \/ \E m \in mutations, r \in UploadResults : ServerApply(m, r)
    \/ \E m \in mutations : MutationSuccess(m)
    \/ \E m \in mutations, e \in {NetworkError} : MutationError(m, e)

SpecUpload == InitWarm /\ [][NextUpload]_vars

\* the browser fires every interval that has not been cleared, again and again
SpecUploadFair ==
    /\ InitWarm
    /\ [][NextUpload]_vars
    /\ WF_vars(Tick)
    /\ WF_vars(\E ran \in BOOLEAN : OrphanTick(ran))

\* every write is rejected: by the server with a message, with an error list,
\* or by the network
NextFail ==
    \/ HandleCreate
    \/ HandleEdit
    \/ HandleCancel
    \/ EditFields(filledForm)
    \/ SubmitForm
    \/ \E s \in {"Archived"} : HandleStatusUpdate(s)
    \/ HandleFeaturedToggle
    \/ \E c \in BOOLEAN : HandleDelete(c)
    \/ HandleBulkUpload
    \/ HandleBulkUploadClose
    \/ HandleFileInputChange(<<[type |-> "text/csv", name |-> CsvName]>>)
    \/ HandleUpload
    \/ Tick
    \/ \E m \in mutations, e \in AxiosErrors : MutationError(m, e)
    \/ \E k \in QueryKeys : ServerAnswer(k)
    \/ \E k \in QueryKeys : QueryResolve(k)

SpecFail == InitWarm /\ [][NextFail]_vars

\* the controls that start a write, pressed again while writes are in flight;
\* the refetches the completions start are left unanswered
NextMenu ==
    \/ HandleCreate
    \/ HandleEdit
    \/ HandleCancel
    \/ EditFields(filledForm)
    \/ SubmitFormWithin(MaxRepeats)
    \/ \E s \in {"Archived"} : HandleStatusUpdateWithin(s, MaxRepeats)
    \/ HandleFeaturedToggleWithin(MaxRepeats)
    \/ \E c \in BOOLEAN : HandleDeleteWithin(c, MaxRepeats)
    \/ HandleBulkUpload
    \/ HandleFileInputChange(<<[type |-> "text/csv", name |-> CsvName]>>)
    \/ HandleUploadWithin(MaxRepeats)
    \/ \E m \in mutations, r \in {PartialResult, NoResult} : ServerApply(m, r)
    \/ \E m \in mutations : MutationSuccess(m)
    \/ \E m \in mutations, e \in {NetworkError} : MutationError(m, e)

SpecMenu == InitWarm /\ [][NextMenu]_vars

----------------------------------------------------------------------------
(* App: the routes, and the session machine under them *)

\* the paths of the routes, and "/profile" for the paths only "*" matches
Paths ==
    {"/login", "/register", "/test-problems", "/upload", "/", "/dashboard",
     "/problems", "/analytics", "/users", "/settings", "/profile"}

\* what an element renders: the components on screen, or a <Navigate to>
Shows(components) == [show |-> components, to |-> null]

NavigateTo(path) == [show |-> {}, to |-> path]

\* components/auth/ProtectedRoute: nothing of its children while the session
\* loads, a redirect to /login while it is anonymous
ProtectedRoute(s, children) ==
    IF s.isLoading THEN Shows({"Loading"})
    ELSE IF ~s.isAuthenticated THEN NavigateTo("/login")
    ELSE children

\* Layout: the sidebar and the top bar around the <Outlet/>
Layout(child) == [child EXCEPT !.show = @ \cup {"Layout", "AppSidebar", "TopBar"}]

Routes(path, s) ==
    CASE path = "/login"         -> Shows({"Login"})
      [] path = "/register"      -> Shows({"Register"})
      [] path = "/test-problems" -> Shows({"TestProblems", "ProblemManagement"})
      [] path = "/upload"        -> ProtectedRoute(s, Shows({"BulkUploadPage", "BulkUpload"}))
      [] path = "/"              -> ProtectedRoute(s, Layout(NavigateTo("/dashboard")))
      [] path = "/dashboard"     -> ProtectedRoute(s, Layout(Shows({"Dashboard"})))
      [] path = "/problems"      -> ProtectedRoute(s, Layout(Shows({"ProblemManagement"})))
      [] path = "/analytics"     -> ProtectedRoute(s, Layout(Shows({"Analytics"})))
      [] path = "/users"         ->
            ProtectedRoute(s, Layout(ProtectedRoute(s, Shows({"Users"}))))
      [] path = "/settings"      -> ProtectedRoute(s, Layout(Shows({"Settings"})))
      [] OTHER                   -> Shows({"NotFound"})

\* what App has on screen
screen == Routes(location, state)

\* the user opens a URL or follows a link
Navigate(path) ==
    /\ location' = path
    /\ effects' = <<>>
    /\ lastOp' = Op("navigate")
    /\ UNCHANGED <<authVars, pageVars, uploadVars, formVars>>

\* the effect of a rendered <Navigate to replace>
Redirect ==
    /\ screen.to # null
    /\ location' = screen.to
    /\ effects' = <<>>
    /\ lastOp' = Op("redirect")
    /\ UNCHANGED <<authVars, pageVars, uploadVars, formVars>>

\* Login.handleLogin when its timeout fires, the user still on the page; filled
\* is email && password
HandleLogin(filled) ==
    /\ "Login" \in screen.show
    /\ location' = IF filled THEN "/dashboard" ELSE location
    /\ effects' = toast([effects |-> <<>>],
                        IF filled THEN "Login successful" ELSE "Login failed",
                        IF filled THEN "Welcome to Trizen Ventures CMS Portal!"
                        ELSE "Please enter valid credentials.").effects
    /\ lastOp' = Op("handleLogin")
    /\ UNCHANGED <<authVars, pageVars, uploadVars, formVars>>

\* TopBar.handleLogout
HandleLogout ==
    /\ "TopBar" \in screen.show
    /\ Commit(toast(logout(World), "Logged out successfully",
                    "You have been logged out of the system."))
    /\ location' = "/login"
    /\ lastOp' = Op("handleLogout")
    /\ UNCHANGED <<initPc, initToken, pending, thrown>>
    /\ UNCHANGED <<pageVars, uploadVars, formVars>>

InitRoute == InitSession /\ InitPage /\ location \in Paths

NextRoute ==
    \/ InitAuth
    \/ InitAuthSuccess("u1")
    \/ InitAuthFailure
    \/ Login
    \/ LoginSuccess("u1", "tok1")
    \/ LoginFailure(null)
    \/ \E path \in Paths : Navigate(path)
    \/ Redirect
    \/ \E filled \in BOOLEAN : HandleLogin(filled)
    \/ HandleLogout

SpecRoute == InitRoute /\ [][NextRoute]_vars

----------------------------------------------------------------------------
(* Session claims, checked under Spec *)

Anonymous(err) ==
    [user |-> null, token |-> null, isAuthenticated |-> FALSE,
     isLoading |-> FALSE, error |-> err]

Authenticated(u, t) ==
    [user |-> u, token |-> t, isAuthenticated |-> TRUE,
     isLoading |-> FALSE, error |-> null]

Persisted(ls, u, t) ==
    /\ ls["user"] = JSONstringify(u)
    /\ getStoredUser(ls) = u
    /\ ls["token"] = t

\* C1: in every reachable session state isAuthenticated is true exactly when
\* both user and token are non-null.
C1_IsAuthenticatedIffUserAndToken ==
    state.isAuthenticated <=> (state.user # null /\ state.token # null)

C1_Witness ==
    /\ state.isAuthenticated
    /\ state.user \in Users
    /\ state.token \in Tokens
    /\ lastOp.op = "clearError"

\* C2: when the verification started by restore-on-start fails, the handler
\* leaves the session Anonymous with error "Session expired" and both
\* persisted entries erased.
C2_RestoreFailureExpiresSession ==
    lastOp.op = "initAuthFailure" =>
        /\ state = Anonymous("Session expired")
        /\ localStorage = emptyStorage

C2_Witness ==
    /\ lastOp.op = "initAuthFailure"
    /\ truthy(initToken)

\* C3: when a login succeeds with {user, token}, the session is Authenticated
\* with exactly that user and token, localStorage holds both, and localStorage
\* already held them when AUTH_SUCCESS was dispatched.
C3_LoginSuccessPersistsThenAuthenticates ==
    lastOp.op = "loginSuccess" =>
        /\ state = Authenticated(lastOp.user, lastOp.token)
        /\ Persisted(localStorage, lastOp.user, lastOp.token)
        /\ \E i \in DOMAIN effects : effects[i].eff = "AUTH_SUCCESS"
        /\ \A i \in DOMAIN effects :
              effects[i].eff = "AUTH_SUCCESS" =>
                  Persisted(effects[i].localStorage, lastOp.user, lastOp.token)

C3_Witness ==
    /\ lastOp.op = "loginSuccess"
    /\ state.user = "u1"
    /\ localStorage["token"] = "tok1"

\* C10: logout(), whatever the session state it is called in, erases both
\* persisted entries and leaves the session Anonymous with no error, all in
\* the one synchronous handler.
C10_LogoutClearsEverything ==
    lastOp.op = "logout" =>
        /\ localStorage = emptyStorage
        /\ state = Anonymous(null)
        /\ Len(effects) = 2
        /\ effects[1].eff = "clearAuthData"
        /\ effects[1].localStorage = emptyStorage
        /\ effects[2].eff = "LOGOUT"

\* a logout issued while the restore check and a login are both in flight
C10_Witness ==
    /\ lastOp.op = "logout"
    /\ initPc = "verifying"
    /\ pending["login"] > 0

\* C11: when the request of login() or register() fails, the catch block
\* leaves the session Anonymous with error equal to the server's message if
\* the response carried one and else to "Login failed" / "Registration
\* failed", and then throws the same failure to the caller.
C11_FailedAttemptIsAnonymousAndRethrown ==
    /\ lastOp.op = "loginFailure" =>
          /\ state = Anonymous(IF lastOp.msg # null THEN lastOp.msg ELSE "Login failed")
          /\ effects[Len(effects)].eff = "throw"
          /\ thrown["login"] > 0
    /\ lastOp.op = "registerFailure" =>
          /\ state = Anonymous(IF lastOp.msg # null THEN lastOp.msg
                                                   ELSE "Registration failed")
          /\ effects[Len(effects)].eff = "throw"
          /\ thrown["register"] > 0

\* a login that fails without a server message while localStorage holds a session
C11_Witness ==
    /\ lastOp.op = "loginFailure"
    /\ lastOp.msg = null
    /\ state.error = "Login failed"
    /\ localStorage # emptyStorage
    /\ thrown["login"] = 1

\* C12: when both entries were persisted and the verification succeeds, the
\* session is Authenticated with the user the verification returned and with
\* the token initAuth read from localStorage at start, isLoading false and
\* error null.
C12_RestoreSuccessUsesFreshUserAndReadToken ==
    lastOp.op = "initAuthSuccess" =>
        /\ initToken \in Tokens
        /\ lastOp.user \in Users
        /\ state = Authenticated(lastOp.user, initToken)

\* the verification returned another user than the persisted copy
C12_Witness ==
    /\ lastOp.op = "initAuthSuccess"
    /\ localStorage \in StoredAtStart
    /\ localStorage["token"] = initToken
    /\ state.user # getStoredUser(localStorage)

\* C13: with nothing persisted, initAuth sends no verification request: its
\* one step takes the session from Uninitialized to Anonymous with error null.
C13_NoCredentialsGoesStraightToAnonymous ==
    [][(initPc = "start" /\ localStorage = emptyStorage) =>
           /\ state = initialState
           /\ initPc' = "done"
           /\ state' = Anonymous(null)
           /\ localStorage' = emptyStorage]_vars

C13_Witness ==
    /\ lastOp.op = "initAuth"
    /\ initPc = "done"
    /\ initToken = null
    /\ state = Anonymous(null)
    /\ localStorage = emptyStorage

\* C14: clearError(), in whatever session state it is called, sets error to
\* null and changes neither user, token, isAuthenticated, isLoading nor
\* localStorage.
C14_ClearErrorChangesOnlyError ==
    [][lastOp'.op = "clearError" =>
           /\ state' = [state EXCEPT !.error = null]
           /\ localStorage' = localStorage]_vars

\* clearError took away the error while a register call was in flight and a
\* failed login had left its message; isLoading and the storage are as before
C14_Witness ==
    /\ lastOp.op = "clearError"
    /\ state.error = null
    /\ state.isLoading
    /\ state.isAuthenticated
    /\ localStorage # emptyStorage
    /\ pending["register"] > 0

\* C15: every step that takes the session from authenticated to not
\* authenticated (logout, a failed restore, a failed login or register
\* attempted while authenticated) leaves both persisted entries erased.
C15_LeavingAuthenticatedErasesStorage ==
    [][(state.isAuthenticated /\ ~state'.isAuthenticated) =>
           localStorage' = emptyStorage]_vars

\* a failed login has ended an authenticated session
C15_Witness ==
    /\ lastOp.op = "loginFailure"
    /\ state = Anonymous("Invalid credentials")
    /\ \E i \in DOMAIN effects : effects[i].eff = "AUTH_FAILURE"
    /\ localStorage # emptyStorage
    /\ initPc = "done"
    /\ initToken = null

\* C16: every step into Authenticated (restore success, login success,
\* register success) leaves the session's user and token in localStorage.
C16_EnteringAuthenticatedPersistsSession ==
    lastOp.op \in {"initAuthSuccess", "loginSuccess", "registerSuccess"} =>
        Persisted(localStorage, state.user, state.token)

\* the steps that do call storeAuthData: login and register success
C16_LoginAndRegisterPersistSession ==
    lastOp.op \in {"loginSuccess", "registerSuccess"} =>
        Persisted(localStorage, state.user, state.token)

\* restore succeeded with a user that is not the one localStorage holds
C16_Witness ==
    /\ lastOp.op = "initAuthSuccess"
    /\ state.isAuthenticated
    /\ ~Persisted(localStorage, state.user, state.token)

\* C17: in every reachable session state, isLoading is true only while the
\* restore started at mount has not resolved or a login or register call is
\* in flight.
C17_LoadingOnlyWhileSomethingInFlight ==
    state.isLoading => (initPc # "done" \/ pending["login"] + pending["register"] > 0)

\* isLoading is true for a register call alone, the restore having resolved
C17_Witness ==
    /\ state.isLoading
    /\ initPc = "done"
    /\ pending["login"] = 0
    /\ pending["register"] = 1

\* C23: once a login or register has succeeded, the failure of the restore
\* verification that was started before it changes neither the session nor
\* localStorage.  (During the verification only a login or register can have
\* made the session authenticated.)
C23_LateRestoreFailureLeavesSession ==
    [][(initPc = "verifying" /\ state.isAuthenticated
            /\ lastOp'.op = "initAuthFailure") =>
           /\ state' = state
           /\ localStorage' = localStorage]_vars

\* a login has succeeded while the restore verification is still in flight
C23_Witness ==
    /\ initPc = "verifying"
    /\ lastOp.op = "loginSuccess"
    /\ state = Authenticated(lastOp.user, lastOp.token)
    /\ Persisted(localStorage, lastOp.user, lastOp.token)

\* C24: the completion of a login, register or restore verification that
\* was in flight when logout() ran does not re-authenticate the session or
\* write localStorage again.  (A success that is the very next step after
\* logout belongs to a call started before it.)
C24_LogoutOutlivesCallsInFlight ==
    [][(lastOp.op = "logout"
            /\ lastOp'.op \in {"loginSuccess", "registerSuccess", "initAuthSuccess"}) =>
           /\ state' = state
           /\ localStorage' = localStorage]_vars

\* logout ran with a register call in flight
C24_Witness ==
    /\ lastOp.op = "logout"
    /\ state = Anonymous(null)
    /\ localStorage = emptyStorage
    /\ pending["register"] > 0
    /\ initPc = "done"

\* C25: in every reachable session state a non-null error implies that the
\* session is not authenticated and holds neither user nor token.
C25_ErrorOnlyWhenNotAuthenticated ==
    state.error # null =>
        ~state.isAuthenticated /\ state.user = null /\ state.token = null

\* an error is on show, and a later success has not yet arrived
C25_Witness ==
    /\ state.error = "Invalid credentials"
    /\ ~state.isAuthenticated
    /\ lastOp.op = "registerFailure"
    /\ pending["login"] > 0

\* C26: localStorage starting with user and token both present or both
\* absent, the two entries are both present or both absent after every
\* restore, login, register and logout step.
C26_StoredEntriesComeInPairs ==
    (localStorage["user"] = null) <=> (localStorage["token"] = null)

\* the pair was written by a register, the restore of a stored session resolved
C26_Witness ==
    /\ lastOp.op = "registerSuccess"
    /\ initToken \in Tokens
    /\ initPc = "done"
    /\ localStorage["token"] = lastOp.token
    /\ localStorage["user"] = JSONstringify(lastOp.user)
    /\ thrown["login"] = 0

----------------------------------------------------------------------------
(* Cache claims: C4 under SpecRead, C5 and C6 under SpecCache *)

\* entries of the last handler's log
Logged(name, k) == \E i \in DOMAIN effects : effects[i].eff = name /\ effects[i].key = k

Toasted(title) == \E i \in DOMAIN effects : effects[i].eff = "toast" /\ effects[i].text = title

Requested(kind) ==
    \E i \in DOMAIN effects : effects[i].eff = "request" /\ effects[i].text = kind

C5_SuccessInvalidatesBothFamilies ==
    /\ [](lastOp.op = "mutationSuccess" =>
            /\ Logged("invalidateQueries", <<"problems">>)
            /\ Logged("invalidateQueries", <<"problem-stats">>)
            /\ \A k \in QueryKeys : queries[k].exists => queries[k].isInvalidated)
    /\ [][lastOp'.op = "mutationError" => queries' = queries /\ obs' = obs]_vars

C5_Witness ==
    /\ lastOp = PageOp("mutationSuccess", "bulkUpload")
    /\ queries[ProblemsKey(defaultFilters)].isInvalidated
    /\ ~isActive(PageWorld, ProblemsKey(defaultFilters))
    /\ queries[StatsKey].isInvalidated
    /\ queries[StatsKey].net = "sent"

\* C6: a useQuery that starts reading a key whose request is already in flight
\* sends no request of its own, and all readers of a key hold the same data,
\* the data of the key's one cache entry.
C6_ConcurrentReadsShareOneRequest ==
    /\ \A i \in DOMAIN effects :
          effects[i].eff = "subscribe" /\ effects[i].wasFetching
              => ~(i + 1 \in DOMAIN effects
                   /\ effects[i + 1].eff = "GET"
                   /\ effects[i + 1].key = effects[i].key)
    /\ \A o \in ObserverIds :
          obs[o].key # NoKey => obs[o].data = queries[obs[o].key].data

C6_Witness ==
    /\ lastOp.op = "mount"
    /\ obs["ProblemList.stats"].key = StatsKey
    /\ obs["ProblemManagement.stats"].key = StatsKey
    /\ \E i \in DOMAIN effects :
          /\ effects[i].eff = "subscribe"
          /\ effects[i].key = StatsKey
          /\ effects[i].wasFetching
    /\ Cardinality({i \in DOMAIN effects :
                      effects[i].eff = "GET" /\ effects[i].key = StatsKey}) = 1

----------------------------------------------------------------------------
(* Form claims, checked under SpecForm *)

\* C7: a create request in flight carries a title of 5 to 200 characters and
\* an abstract of 50 to 5000; a submit with a title of 4 or 201 characters or
\* an abstract of 49 or 5001 marks the field as failed and sends no request;
\* a submit with a title of 5 or 200 characters does not fail the title, one
\* with an abstract of 50 or 5000 does not fail the abstract.
C7_RequestOnlyForLengthsInRange ==
    /\ \A m \in mutations :
          m.kind = "create" =>
              /\ m.data.title >= 5 /\ m.data.title <= 200
              /\ m.data.abstract >= 50 /\ m.data.abstract <= 5000
    /\ lastOp.op = "submit" =>
          /\ form.title \in {4, 201} => "title" \in errors
          /\ form.abstract \in {49, 5001} => "abstract" \in errors
          /\ form.title \in {4, 201} \/ form.abstract \in {49, 5001}
               => ~Requested("create") /\ ~Requested("update")
          /\ form.title \in {5, 200} => "title" \notin errors
          /\ form.abstract \in {50, 5000} => "abstract" \notin errors

C7_Witness ==
    /\ lastOp = PageOp("submit", "create")
    /\ form.title = 5
    /\ form.abstract = 5000
    /\ Requested("create")
    /\ \E m \in mutations : m.kind = "create" /\ m.data = form

----------------------------------------------------------------------------
(* Upload claims, checked under SpecUpload *)

\* neither the declared type nor the name says CSV
NotCsv(file) == file.type # "text/csv" /\ ~endsWith(file.name, dotCsv)

\* C8: handleFileSelect given a file whose type is not text/csv and whose name
\* does not end in .csv shows the "Invalid File Type" notification, leaves
\* selectedFile and uploadResult as they were and sends nothing; the selected
\* file is never such a file, and no bulk-upload request carries one.
C8_NonCsvFileIsRejected ==
    /\ [][lastOp'.op = "handleFileSelect" /\ NotCsv(lastOp'.kind) =>
            /\ Toasted("Invalid File Type")'
            /\ selectedFile' = selectedFile
            /\ uploadResult' = uploadResult
            /\ ~Requested("bulkUpload")'
            /\ mutations' = mutations]_vars
    /\ [](selectedFile # NoFile => ~NotCsv(selectedFile))
    /\ [](\A m \in mutations : m.kind = "bulkUpload" => ~NotCsv(m.file))

C8_Witness ==
    /\ lastOp.op = "handleFileSelect"
    /\ NotCsv(lastOp.kind)
    /\ Toasted("Invalid File Type")
    /\ selectedFile = NoFile
    /\ uploadResult # NoResult

\* a result with rows imported and rows failed
IsPartial(r) == r.hasData /\ r.imported > 0 /\ r.failed > 0

\* the Upload Results section shows both counts and every row error
Surfaced ==
    LET view == uploadResultsView(PageWorld)
    IN  /\ view.shown
        /\ view.imported = uploadResult.imported
        /\ view.failed = uploadResult.failed
        /\ Len(view.rows) = Len(uploadResult.errors)
        /\ \A i \in DOMAIN view.rows :
              /\ view.rows[i].row = uploadResult.errors[i].row
              /\ view.rows[i].message = uploadResult.errors[i].message

\* C9 as stated: a response with rows imported and rows failed goes to
\* onSuccess, which invalidates the caches; its result stays recorded with
\* both counts and every row error on screen, and progress has ended at 100.
C9_PartialImportHandledAsSuccess ==
    /\ lastOp = PageOp("mutationSuccess", "bulkUpload") =>
          /\ Logged("invalidateQueries", <<"problems">>)
          /\ Logged("invalidateQueries", <<"problem-stats">>)
          /\ \A k \in QueryKeys : queries[k].exists => queries[k].isInvalidated
    /\ IsPartial(uploadResult) =>
          /\ Surfaced
          /\ ~isProcessing
          /\ uploadProgress = 100

\* what holds of C9: everything but the final value of the progress
C9_PartialImportRecordedAndSurfaced ==
    /\ lastOp = PageOp("mutationSuccess", "bulkUpload") =>
          /\ Logged("invalidateQueries", <<"problems">>)
          /\ Logged("invalidateQueries", <<"problem-stats">>)
          /\ \A k \in QueryKeys : queries[k].exists => queries[k].isInvalidated
          /\ uploadOpen /\ uploadResult # NoResult => uploadProgress = 100
    /\ IsPartial(uploadResult) => Surfaced /\ ~isProcessing

C9_Witness ==
    /\ lastOp = PageOp("mutationSuccess", "bulkUpload")
    /\ IsPartial(uploadResult)
    /\ uploadResult.success
    /\ Surfaced
    /\ uploadProgress = 100
    /\ timers.attached > 0

----------------------------------------------------------------------------
(* Delete confirmation: C20 under SpecCache *)

\* the deleteProblem requests in a set of write requests, by id
deletesIn(ms) == {m.id : m \in {x \in ms : x.kind = "delete"}}

\* C20: a deleteProblem request is sent only by handleDelete after the user
\* confirmed the prompt for the record; when the prompt is declined, no
\* request is sent, no cache entry changes and no toast is shown.
C20_DeleteOnlyAfterConfirmation ==
    /\ [][deletesIn(mutations') \ deletesIn(mutations) # {} =>
             /\ lastOp' = PageOp("handleDelete", "confirmed")
             /\ Cardinality(deletesIn(mutations') \ deletesIn(mutations)) = 1
             /\ Requested("delete")']_vars
    /\ [][lastOp' = PageOp("handleDelete", "declined") =>
             /\ mutations' = mutations
             /\ queries' = queries
             /\ obs' = obs
             /\ server' = server
             /\ effects' = <<>>]_vars

\* the prompt was declined with the list on screen and its data loaded
C20_Witness ==
    /\ lastOp = PageOp("handleDelete", "declined")
    /\ RowShown
    /\ mutations = {}
    /\ queries[listKey(PageWorld)].data # NoData

\* the prompt was confirmed and the request is in flight
C20_WitnessConfirmed ==
    /\ lastOp = PageOp("handleDelete", "confirmed")
    /\ \E m \in mutations : m.kind = "delete" /\ m.phase = "sent"

----------------------------------------------------------------------------
(* Failure messages: C18 under SpecFail *)

\* the generic messages of the handlers, each naming the attempted action
Fallbacks(kind) ==
    CASE kind = "create"         -> {"Failed to create problem statement",
                                     "Failed to create problem statement."}
      [] kind = "update"         -> {"Failed to update problem statement",
                                     "Failed to update problem statement."}
      [] kind = "updateStatus"   -> {"Failed to update problem status."}
      [] kind = "toggleFeatured" -> {"Failed to update featured status."}
      [] kind = "delete"         -> {"Failed to delete problem."}
      [] kind = "bulkUpload"     -> {"Failed to upload file"}

\* the message the stated precedence picks for a failure
Expected(error, kind) ==
    IF error.respMessage # null THEN {error.respMessage}
    ELSE IF error.respErrors # null THEN {error.respErrors}
    ELSE Fallbacks(kind)

\* C18: when a write (create, update, delete, status change, featured toggle,
\* bulk upload) fails, every message shown for it is the server's message if
\* the response has one, else the response's error list joined, else the
\* generic message naming the action.
C18_FailureMessageFollowsPrecedence ==
    lastOp.op = "mutationError" =>
        /\ \E i \in DOMAIN effects : effects[i].eff = "toast"
        /\ \A i \in DOMAIN effects :
              effects[i].eff = "toast" =>
                  effects[i].detail \in Expected(lastOp.error, lastOp.kind)

\* a delete the server rejected with a message is reported with the generic one
C18_Witness ==
    /\ lastOp.op = "mutationError"
    /\ lastOp.kind = "delete"
    /\ lastOp.error.respMessage = "Title already exists"
    /\ \E i \in DOMAIN effects :
          effects[i].eff = "toast" /\ effects[i].detail = "Failed to delete problem."

\* the one handler that looks at the error list, the form's catch, shows it
C18_WitnessForm ==
    /\ lastOp.op = "mutationError"
    /\ lastOp.kind = "create"
    /\ lastOp.error.respMessage = null
    /\ \E i \in DOMAIN effects :
          effects[i].eff = "toast" /\ effects[i].detail = lastOp.error.respErrors

----------------------------------------------------------------------------
(* Route protection: C19 under SpecRoute *)

\* the views the claim calls protected, with the frame they are shown in
ProtectedContent ==
    {"Layout", "AppSidebar", "TopBar", "Dashboard", "ProblemManagement", "BulkUploadPage",
     "BulkUpload", "Analytics", "Users", "Settings"}

\* the paths whose route shows protected content to a signed-in user
ProtectedPaths ==
    {path \in Paths :
        Routes(path, Authenticated("u1", "tok1")).show \cap ProtectedContent # {}}

\* C19: in every reachable state protected content is on screen only while
\* the session is Authenticated: none while it is Uninitialized, and while it
\* is Anonymous every route that shows such content redirects to /login.
C19_ProtectedContentOnlyWhenAuthenticated ==
    /\ screen.show \cap ProtectedContent # {} =>
          state.isAuthenticated /\ state.user # null /\ state.token # null
    /\ (~state.isLoading /\ ~state.isAuthenticated /\ location \in ProtectedPaths) =>
          screen = NavigateTo("/login")

\* the routes that are wrapped in ProtectedRoute do keep to it
C19_WrappedRoutesAreGuarded ==
    location # "/test-problems" => C19_ProtectedContentOnlyWhenAuthenticated

\* /test-problems shows ProblemManagement to an anonymous session
C19_Witness ==
    /\ location = "/test-problems"
    /\ state = Anonymous(null)
    /\ initPc = "done"
    /\ "ProblemManagement" \in screen.show

----------------------------------------------------------------------------
(* Order of a form submit's steps: C22 under SpecForm *)

FormKinds == {"create", "update"}

EffectsAt(name) == {i \in DOMAIN effects : effects[i].eff = name}

\* in the log of one completion: both families invalidated, problems first, and
\* the view set to the list after them
InvalidatedThenListed ==
    /\ \E i, j \in EffectsAt("invalidateQueries") :
          /\ i < j
          /\ effects[i].key = <<"problems">>
          /\ effects[j].key = <<"problem-stats">>
          /\ \A k \in EffectsAt("setViewMode") : j < k /\ effects[k].text = "list"
    /\ EffectsAt("setViewMode") # {}
    /\ viewMode = "list"

\* C22: when a create or update of the form succeeds, its completion invalidates
\* the two cache families and only then returns the view to the list; the
\* completion of a failed create or update leaves the view where it was.
C22_SubmitStepsAreOrdered ==
    [][/\ (lastOp'.op = "mutationSuccess" /\ lastOp'.kind \in FormKinds)
            => /\ \E m \in mutations : m.kind = lastOp'.kind /\ m.phase = "applied"
               /\ InvalidatedThenListed'
       /\ (lastOp'.op = "mutationError" /\ lastOp'.kind \in FormKinds)
            => /\ viewMode' = viewMode
               /\ EffectsAt("setViewMode")' = {}]_vars

\* an update succeeded while its form was shown, and the list is back
C22_Witness ==
    /\ lastOp.op = "mutationSuccess" /\ lastOp.kind = "update"
    /\ InvalidatedThenListed
    /\ server.version = 1

\* a create failed and its form is still shown
C22_WitnessFailed ==
    /\ lastOp.op = "mutationError" /\ lastOp.kind = "create"
    /\ viewMode = "create"
    /\ Toasted("Error")

----------------------------------------------------------------------------
(* The form's mode and the problem being edited: C28 under SpecCache *)

\* the request a submit of the form shown in this mode has to send
WriteOf(mode) == IF mode = "edit" THEN "update" ELSE "create"

\* C28: the edit form always has a problem to edit and the create form never
\* has one, so every request of the form is updateProblem when it was sent from
\* the edit form and createProblem when it was sent from the create form.
C28_ModeMatchesEditingProblem ==
    /\ viewMode = "edit" => editingProblem # null
    /\ viewMode = "create" => editingProblem = null
    /\ \A m \in mutations : m.kind \in FormKinds => m.kind = WriteOf(m.mode)
    /\ lastOp.op = "submit" =>
          \A i \in EffectsAt("request") : effects[i].text = WriteOf(lastOp.kind)

\* a create completed while the edit form was shown: the list is back with
\* editingProblem still set
C28_Witness ==
    /\ lastOp.op = "mutationSuccess" /\ lastOp.kind = "create"
    /\ viewMode = "list"
    /\ editingProblem # null

\* the edit form sent updateProblem
C28_WitnessSubmit ==
    /\ lastOp.op = "submit" /\ lastOp.kind = "edit"
    /\ Requested("update")
    /\ \E m \in mutations : m.kind = "update" /\ m.mode = "edit"

----------------------------------------------------------------------------
(* Notifications of a form submit: C29 under SpecForm *)

\* a create or update of the form has just completed
FormCompleted ==
    /\ lastOp.op \in {"mutationSuccess", "mutationError"}
    /\ lastOp.kind \in FormKinds

ToastsTitled(title) == {i \in EffectsAt("toast") : effects[i].text = title}

\* C29: the completion of a create or update of the form raises exactly one
\* notification: a success notification when the request succeeded, an error
\* notification when it failed.
C29_OneNotificationPerCompletion ==
    FormCompleted =>
        /\ Cardinality(EffectsAt("toast")) = 1
        /\ \A i \in EffectsAt("toast") :
              effects[i].text = (IF lastOp.op = "mutationSuccess" THEN "Success" ELSE "Error")

\* a create succeeded and both createMutation.onSuccess and onSubmitForm
\* raised their success notification
C29_Witness ==
    /\ lastOp.op = "mutationSuccess" /\ lastOp.kind = "create"
    /\ Cardinality(ToastsTitled("Success")) = 2
    /\ EffectsAt("toast") = ToastsTitled("Success")

\* an update failed and both updateMutation.onError and onSubmitForm's catch
\* raised an error notification, with different texts
C29_WitnessFailed ==
    /\ lastOp.op = "mutationError" /\ lastOp.kind = "update"
    /\ Cardinality(ToastsTitled("Error")) = 2
    /\ \E i, j \in ToastsTitled("Error") : effects[i].detail # effects[j].detail

----------------------------------------------------------------------------
(* The simulated progress after completion: C27 under SpecUpload *)

\* C27: once the upload has completed (nothing is processing), a firing of the
\* interval leaves uploadProgress as the completion set it: 100 after a
\* success, 0 after a failure.
C27_ProgressKeepsFinalValue ==
    [][(lastOp'.op = "tick" /\ ~isProcessing) => uploadProgress' = uploadProgress]_vars

\* the upload succeeded, its result is on screen, and a tick has taken the
\* progress from 100 to the cap
C27_Witness ==
    /\ lastOp.op = "tick"
    /\ uploadResult # NoResult /\ uploadResult.success
    /\ ~isProcessing
    /\ uploadProgress = ProgressCap

\* the upload failed, and ticks have raised the progress from 0
C27_WitnessFailed ==
    /\ lastOp.op = "tick"
    /\ uploadResult = NoResult
    /\ ~isProcessing
    /\ uploadProgress > 0 /\ uploadProgress < ProgressCap

----------------------------------------------------------------------------
(* The intervals stop: C30 under SpecUploadFair *)

UploadsStop == <>[](lastOp.op # "handleUpload")

\* C30: every interval started by an upload is eventually cleared: unless
\* uploads are started for ever, from some point on no interval is running.
C30_EveryTimerStops == UploadsStop => <>[](timersRunning(PageWorld) = 0)

\* what holds of C30: the intervals of a BulkUpload that stays mounted
C30_MountedTimersStop == UploadsStop => <>[](timers.attached = 0)

\* BulkUpload was closed while its upload was processing, and the interval it
\* left behind has fired twice in a row since
C30_Witness ==
    /\ lastOp.op = "orphanTick" /\ ~lastOp.kind /\ lastOp.beat
    /\ timers.orphaned > 0
    /\ ~uploadOpen
    /\ \E m \in mutations : m.kind = "bulkUpload" /\ m.orphan

----------------------------------------------------------------------------
(* Controls while their write is in flight: C21 under SpecMenu *)

\* the requests in flight that one control sends: the form's submit button
\* sends create and update
InFlightOf(kinds) == {m \in mutations : m.kind \in kinds /\ ~m.orphan}

Controls ==
    {FormKinds, {"bulkUpload"}, {"updateStatus"}, {"toggleFeatured"}, {"delete"}}

\* C21: a control whose write is in flight is disabled, so no control has two
\* of its writes in flight at the same time.
C21_NoSecondRequestWhileInFlight ==
    \A kinds \in Controls : Cardinality(InFlightOf(kinds)) <= 1

\* what holds of C21: the submit button of the form and the upload button
C21_FormAndUploadAreGuarded ==
    /\ Cardinality(InFlightOf(FormKinds)) <= 1
    /\ Cardinality(InFlightOf({"bulkUpload"})) <= 1

\* the featured item was pressed while its first request was in flight, and
\* two toggleFeatured requests are in flight
C21_Witness ==
    /\ lastOp.op = "handleFeaturedToggle"
    /\ Cardinality(InFlightOf({"toggleFeatured"})) = 2
    /\ RowShown

\* the form is shown again with filled fields while its create is in flight
C21_WitnessForm ==
    /\ formShown(PageWorld) /\ isDirty(PageWorld)
    /\ isPending(PageWorld, "create")
    /\ lastOp.op = "edit"

====
